---- MODULE Spec2Model ----
(***************************************************************************)
(* A model of the tick-synchronised client/server networking library:     *)
(* the frame codec (message.rs), the clock-sync Timer and its moving       *)
(* average (time.rs), the Remote state machine and the Server (server.rs), *)
(* the Client (client.rs) and the transport contract (protocol.rs).        *)
(***************************************************************************)
EXTENDS Integers, Sequences, FiniteSets, TLC

(***************************************************************************)
(* Bounds of the model.                                                    *)
(***************************************************************************)
\* connections (Clients) of a run in which the Server is called in any order
MaxConns == 1
\* the connections one Client makes one after the other
MaxReconnects == 2
\* connections (Clients) of a run of the tick loop
LoopConns == 3
\* bytes queued and in flight in one direction of a connection
MaxBuffer == 5
\* the time the clock may reach (ms)
MaxClock == 100
\* frames of an encoded stream handed to the frame decoder
MaxFrames == 3
\* the tick rate handed to Server::new / Client::new
TicksPerSecond == 10
\* the time the clock may reach while messages are delivered (ms)
MaxDeliveryClock == 1000
\* bytes queued and in flight to the Server while messages are delivered
MaxInFlight == 45
\* the application messages a Client sends while messages are delivered
MaxSent == 2
\* the largest capacity of a MovingAverage modelled on its own
MaxAverageSize == 3
\* the updates of a MovingAverage modelled on its own
MaxSamples == 5
\* the time the clock of a Timer modelled on its own may reach (ms)
MaxProbeClock == 1000
\* the receive() calls of a Timer modelled on its own
MaxReceives == 2
\* the messages handed to one receive() of a Timer modelled on its own
MaxIncoming == 2
\* the Pongs a Timer modelled on its own takes in: its averages are exact fractions
MaxPongs == 1

(***************************************************************************)
(* Program constants.                                                      *)
(***************************************************************************)
AVERAGE_SIZE == 16

(***************************************************************************)
(* Small helpers.                                                          *)
(***************************************************************************)
Max(a, b) == IF a >= b THEN a ELSE b

Range(s) == {s[i] : i \in 1..Len(s)}

\* the suffix of s that starts at 0-based offset k (Rust's &s[k..])
SliceFrom(s, k) == SubSeq(s, k + 1, Len(s))

(***************************************************************************)
(* u64 values.  TLC's integers are 32 bit wide, so a u64 is kept as three  *)
(* limbs <<bits 0..23, bits 24..47, bits 48..63>>; every u64 the wire can  *)
(* carry has exactly one such triple.                                      *)
(***************************************************************************)
U64(n) == <<n % 16777216, n \div 16777216, 0>>

U64Fits(u) == u[3] = 0 /\ u[2] < 128

U64ToInt(u) == u[1] + 16777216 * u[2]

\* bincode: a u64 is 8 bytes, little endian
U64Encode(u) ==
    << u[1] % 256, (u[1] \div 256) % 256, u[1] \div 65536,
       u[2] % 256, (u[2] \div 256) % 256, u[2] \div 65536,
       u[3] % 256, u[3] \div 256 >>

U64Decode(b) ==
    << b[1] + 256 * b[2] + 65536 * b[3],
       b[4] + 256 * b[5] + 65536 * b[6],
       b[7] + 256 * b[8] >>

\* u64::saturating_sub of a value that fits the model's integers and a u64
SaturatingSub(n, u) == IF U64Fits(u) THEN Max(n - U64ToInt(u), 0) ELSE 0

(***************************************************************************)
(* Messages and their encoding (serde + bincode, fixed-width, little       *)
(* endian: an enum is its variant index as a u32 followed by its fields).  *)
(***************************************************************************)
Ping(tick, time) == [type |-> "Ping", tick |-> tick, time |-> time]

Pong(tick, client_time, server_time) ==
    [type |-> "Pong", tick |-> tick, client_time |-> client_time,
     server_time |-> server_time]

\* the application message type M of the example program
Message == {"Hello", "Text"}

Some(v) == [some |-> TRUE, value |-> v]

None == [some |-> FALSE]

\* serialize(&message, Infinite) of an InternalMessage
SerializeInternal(m) ==
    IF m.type = "Ping"
    THEN <<0, 0, 0, 0, m.tick>> \o U64Encode(m.time)
    ELSE <<1, 0, 0, 0, m.tick>> \o U64Encode(m.client_time) \o U64Encode(m.server_time)

\* serialize(&message, Infinite) of an application message
SerializeMessage(m) == IF m = "Hello" THEN <<0, 0, 0, 0>> ELSE <<1, 0, 0, 0>>

\* from_bytes::<InternalMessage>: deserialize a prefix of bytes, and its length
from_bytes_internal(bytes) ==
    IF Len(bytes) >= 13 /\ SubSeq(bytes, 1, 4) = <<0, 0, 0, 0>>
    THEN LET msg == Ping(bytes[5], U64Decode(SubSeq(bytes, 6, 13)))
         IN  Some([msg |-> msg, len |-> Len(SerializeInternal(msg))])
    ELSE IF Len(bytes) >= 21 /\ SubSeq(bytes, 1, 4) = <<1, 0, 0, 0>>
    THEN LET msg == Pong(bytes[5], U64Decode(SubSeq(bytes, 6, 13)),
                         U64Decode(SubSeq(bytes, 14, 21)))
         IN  Some([msg |-> msg, len |-> Len(SerializeInternal(msg))])
    ELSE None

\* from_bytes::<M>
from_bytes_message(bytes) ==
    IF Len(bytes) >= 4 /\ SubSeq(bytes, 1, 4) = <<0, 0, 0, 0>>
    THEN Some([msg |-> "Hello", len |-> Len(SerializeMessage("Hello"))])
    ELSE IF Len(bytes) >= 4 /\ SubSeq(bytes, 1, 4) = <<1, 0, 0, 0>>
    THEN Some([msg |-> "Text", len |-> Len(SerializeMessage("Text"))])
    ELSE None

\* a frame: the tag byte, then the payload
Frame(prefix, bytes) == <<prefix>> \o bytes

InternalFrame(m) == Frame(0, SerializeInternal(m))

MessageFrame(m) == Frame(1, SerializeMessage(m))

(***************************************************************************)
(* MessageIterator::next.  ScanBuffer is the while loop: index is the      *)
(* 0-based scan offset, queue the internal queue so far.                   *)
(***************************************************************************)
RECURSIVE ScanBuffer(_, _, _)
\* a scan that stops at a frame it cannot decode and leaves it in the buffer
ScanBuffer_waiting(buffer, index, queue) ==
    IF index >= Len(buffer)
    THEN [index |-> index, queue |-> queue, message |-> None]
    ELSE IF buffer[index + 1] = 0
    THEN LET r == from_bytes_internal(SliceFrom(buffer, index + 1))
         IN  IF r.some
             THEN ScanBuffer(buffer, index + r.value.len + 1, Append(queue, r.value.msg))
             ELSE [index |-> index, queue |-> queue, message |-> None]
    ELSE IF buffer[index + 1] = 1
    THEN LET r == from_bytes_message(SliceFrom(buffer, index + 1))
         IN  IF r.some
             THEN [index |-> index + r.value.len + 1, queue |-> queue,
                   message |-> Some(r.value.msg)]
             ELSE [index |-> index, queue |-> queue, message |-> None]
    ELSE ScanBuffer(buffer, index + 1, queue)

\* a scan that steps over an application message's payload but not over its tag
ScanBuffer_tagless(buffer, index, queue) ==
    IF index >= Len(buffer)
    THEN [index |-> index, queue |-> queue, message |-> None]
    ELSE IF buffer[index + 1] = 0
    THEN LET r == from_bytes_internal(SliceFrom(buffer, index + 1))
         IN  IF r.some
             THEN ScanBuffer(buffer, index + r.value.len + 1, Append(queue, r.value.msg))
             ELSE ScanBuffer(buffer, index + 1, queue)
    ELSE IF buffer[index + 1] = 1
    THEN LET r == from_bytes_message(SliceFrom(buffer, index + 1))
         IN  IF r.some
             THEN [index |-> index + r.value.len, queue |-> queue,
                   message |-> Some(r.value.msg)]
             ELSE ScanBuffer(buffer, index + 1, queue)
    ELSE ScanBuffer(buffer, index + 1, queue)

ScanBuffer(buffer, index, queue) ==
    IF index >= Len(buffer)
    THEN [index |-> index, queue |-> queue, message |-> None]
    ELSE IF buffer[index + 1] = 0
    THEN LET r == from_bytes_internal(SliceFrom(buffer, index + 1))
         IN  IF r.some
             THEN ScanBuffer(buffer, index + r.value.len + 1, Append(queue, r.value.msg))
             ELSE ScanBuffer(buffer, index + 1, queue)
    ELSE IF buffer[index + 1] = 1
    THEN LET r == from_bytes_message(SliceFrom(buffer, index + 1))
         IN  IF r.some
             THEN [index |-> index + r.value.len + 1, queue |-> queue,
                   message |-> Some(r.value.msg)]
             ELSE ScanBuffer(buffer, index + 1, queue)
    ELSE ScanBuffer(buffer, index + 1, queue)

\* a next() that scans over internal messages without queueing them
MessageIterator_next_unqueued(buffer, internal_queue) ==
    IF buffer = <<>>
    THEN [buffer |-> buffer, internal_queue |-> internal_queue, message |-> None]
    ELSE LET s == ScanBuffer(buffer, 0, internal_queue)
         IN  [buffer |-> SliceFrom(buffer, s.index), internal_queue |-> internal_queue,
              message |-> s.message]

MessageIterator_next(buffer, internal_queue) ==
    IF buffer = <<>>
    THEN [buffer |-> buffer, internal_queue |-> internal_queue, message |-> None]
    ELSE LET s == ScanBuffer(buffer, 0, internal_queue)
         IN  [buffer |-> SliceFrom(buffer, s.index), internal_queue |-> s.queue,
              message |-> s.message]

\* a whole `for m in iterator` loop: next() until it returns none
RECURSIVE DrainIterator(_, _, _)
DrainIterator(buffer, internal_queue, messages) ==
    LET n == MessageIterator_next(buffer, internal_queue)
    IN  IF n.message.some
        THEN DrainIterator(n.buffer, n.internal_queue, Append(messages, n.message.value))
        ELSE [buffer |-> n.buffer, internal_queue |-> n.internal_queue,
              messages |-> messages]

(***************************************************************************)
(* f64 values are kept as exact fractions <<numerator, denominator>> in    *)
(* lowest terms with a positive denominator.                               *)
(***************************************************************************)
RECURSIVE Gcd(_, _)
Gcd(a, b) == IF b = 0 THEN a ELSE Gcd(b, a % b)

Abs(n) == IF n < 0 THEN -n ELSE n

Rat(n, d) ==
    LET g == Gcd(Abs(n), Abs(d))
        s == IF d < 0 THEN -1 ELSE 1
    IN  <<(s * n) \div g, (s * d) \div g>>

RatInt(n) == <<n, 1>>

RatAdd(a, b) == Rat(a[1] * b[2] + b[1] * a[2], a[2] * b[2])

RatSub(a, b) == Rat(a[1] * b[2] - b[1] * a[2], a[2] * b[2])

RatMul(a, b) == Rat(a[1] * b[1], a[2] * b[2])

RatDivInt(a, n) == Rat(a[1], a[2] * n)

RatLeq(a, b) == a[1] * b[2] <= b[1] * a[2]

\* the sum of values[lo..hi]; exact fractions add up to the same in any grouping,
\* and halving the range keeps the evaluation shallow
RECURSIVE RatSumFrom(_, _, _)
RatSumFrom(values, lo, hi) ==
    IF lo > hi THEN RatInt(0)
    ELSE IF lo = hi THEN values[lo]
    ELSE RatAdd(RatSumFrom(values, lo, (lo + hi) \div 2),
                RatSumFrom(values, (lo + hi) \div 2 + 1, hi))

\* self.values.iter().sum() over the first n values
RatSum(values, n) == RatSumFrom(values, 1, n)

(***************************************************************************)
(* MovingAverage (time.rs).                                                *)
(***************************************************************************)
MovingAverage_new(size) ==
    [size |-> size, index |-> 0, used |-> 0, average |-> RatInt(0),
     values |-> [i \in 1..size |-> RatInt(0)]]

MovingAverage_get(ma) == ma.average

\* an update() that counts every value ever given as in use
MovingAverage_update_counts_all(ma, value, ratio) ==
    LET values == [ma.values EXCEPT ![ma.index + 1] =
                       RatAdd(RatMul(ma.average, RatSub(RatInt(1), ratio)),
                              RatMul(value, ratio))]
        index  == IF ma.index + 1 = ma.size THEN 0 ELSE ma.index + 1
    IN  [size |-> ma.size, index |-> index, used |-> ma.used + 1,
         average |-> RatDivInt(RatSum(values, ma.size), ma.used + 1),
         values |-> values]

MovingAverage_update(ma, value, ratio) ==
    LET values == [ma.values EXCEPT ![ma.index + 1] =
                       RatAdd(RatMul(ma.average, RatSub(RatInt(1), ratio)),
                              RatMul(value, ratio))]
        used   == IF ma.used < ma.size THEN ma.used + 1 ELSE ma.used
        index  == IF ma.index + 1 = ma.size THEN 0 ELSE ma.index + 1
    IN  [size |-> ma.size, index |-> index, used |-> used,
         average |-> RatDivInt(RatSum(values, ma.size), used),
         values |-> values]

(***************************************************************************)
(* Timer (time.rs).  Instants and precise_time_ms() are readings of the    *)
(* one clock of the model, in milliseconds.                                *)
(***************************************************************************)
Timer_new(ticks_per_second, instant) ==
    [tick |-> 0, ticks_per_second |-> ticks_per_second,
     clock_shift |-> MovingAverage_new(AVERAGE_SIZE),
     last_wait |-> instant, last_ping |-> instant, accumulated_wait |-> 0,
     average_rtt |-> MovingAverage_new(AVERAGE_SIZE)]

Timer_reset(t, instant) ==
    [t EXCEPT !.tick = 0, !.last_wait = instant, !.accumulated_wait = 0,
              !.last_ping = instant,
              !.clock_shift = MovingAverage_new(AVERAGE_SIZE),
              !.average_rtt = MovingAverage_new(AVERAGE_SIZE)]

Timer_clone(t, instant) ==
    [tick |-> t.tick, ticks_per_second |-> t.ticks_per_second,
     clock_shift |-> MovingAverage_new(AVERAGE_SIZE),
     last_wait |-> instant, last_ping |-> instant, accumulated_wait |-> 0,
     average_rtt |-> MovingAverage_new(AVERAGE_SIZE)]

\* a round trip time whose tick difference is not clamped before one is taken off
PongRtt_unclamped(t, m, now) ==
    LET tick_duration == 1000 \div t.ticks_per_second
        tick_diff     == (t.tick - m.tick) % 256
        expected_rtt  == (tick_diff - 1) * tick_duration
        actual_rtt    == Max(SaturatingSub(now, m.client_time) - tick_duration, 0)
    IN  Rat(expected_rtt + actual_rtt, 2)

\* the round trip time a Pong gives: the mean of the expected and the actual one
PongRtt(t, m, now) ==
    LET tick_duration == 1000 \div t.ticks_per_second
        tick_diff     == (t.tick - m.tick) % 256
        expected_rtt  == Max(tick_diff - 1, 0) * tick_duration
        actual_rtt    == Max(SaturatingSub(now, m.client_time) - tick_duration, 0)
    IN  Rat(expected_rtt + actual_rtt, 2)

\* the clock shift a Pong gives
PongDiff(m, now) ==
    Rat((U64ToInt(m.server_time) - U64ToInt(m.client_time))
            + (U64ToInt(m.server_time) - now), 2)

\* self.average_rtt.update(average_rtt, 1.0)
UpdateRtt(t, average_rtt) ==
    [t EXCEPT !.average_rtt = MovingAverage_update(@, average_rtt, RatInt(1))]

\* if average_rtt <= self.average_rtt.get() * 1.5 { self.clock_shift.update(diff, 0.5) }
UpdateClockShift(t, average_rtt, diff) ==
    IF RatLeq(average_rtt, RatMul(MovingAverage_get(t.average_rtt), Rat(3, 2)))
    THEN [t EXCEPT !.clock_shift = MovingAverage_update(@, diff, Rat(1, 2))]
    ELSE t

\* the Pong arm of Timer::receive
TimerPong(t, m, now) ==
    UpdateClockShift(UpdateRtt(t, PongRtt(t, m, now)), PongRtt(t, m, now),
                     PongDiff(m, now))

\* requests that send a Ping as soon as the time is reached, not only past it
TimerRequests_at_threshold(t, now) ==
    IF now - t.last_ping >= (1000 \div t.ticks_per_second) * 8
    THEN [timer |-> [t EXCEPT !.last_ping = now],
          outgoing |-> <<Ping(t.tick, U64(now))>>]
    ELSE [timer |-> t, outgoing |-> <<>>]

\* the requests of Timer::receive: a Ping when the last one is old enough.
\* r is [timer, outgoing] here and below.
TimerRequests(t, now) ==
    IF now - t.last_ping > (1000 \div t.ticks_per_second) * 8
    THEN [timer |-> [t EXCEPT !.last_ping = now],
          outgoing |-> <<Ping(t.tick, U64(now))>>]
    ELSE [timer |-> t, outgoing |-> <<>>]

\* an arm that answers a Ping with the Timer's own tick
TimerResponse_own_tick(r, m, now) ==
    IF m.type = "Ping"
    THEN [r EXCEPT !.outgoing = Append(@, Pong(r.timer.tick, m.time, U64(now)))]
    ELSE [r EXCEPT !.timer = TimerPong(@, m, now)]

\* one arm of the match in Timer::receive
TimerResponse(r, m, now) ==
    IF m.type = "Ping"
    THEN [r EXCEPT !.outgoing = Append(@, Pong(m.tick, m.time, U64(now)))]
    ELSE [r EXCEPT !.timer = TimerPong(@, m, now)]

\* the `for m in messages` loop of Timer::receive
RECURSIVE TimerResponses(_, _, _)
TimerResponses(r, messages, now) ==
    IF messages = <<>> THEN r
    ELSE TimerResponses(TimerResponse(r, Head(messages), now), Tail(messages), now)

\* self.tick = self.tick.wrapping_add(1)
TimerTick(r) == [r EXCEPT !.timer.tick = (@ + 1) % 256]

\* Timer::receive at instant `now`: the timer after the call and the messages to send
Timer_receive(t, messages, now) ==
    TimerTick(TimerResponses(TimerRequests(t, now), messages, now))

\* a sleep() that forgets the time it could not make up for
Timer_sleep_no_carry(t, now) ==
    LET desired_wait == 1000 \div t.ticks_per_second
        accumulated  == t.accumulated_wait + (now - t.last_wait)
    IN  IF accumulated <= desired_wait
        THEN [timer |-> [t EXCEPT !.accumulated_wait = 0,
                                  !.last_wait = now + (desired_wait - accumulated)],
              blocks |-> desired_wait - accumulated]
        ELSE [timer |-> [t EXCEPT !.accumulated_wait = 0, !.last_wait = now],
              blocks |-> 0]

\* Timer::sleep at instant `now`: the timer after the call and the time it blocks
Timer_sleep(t, now) ==
    LET desired_wait == 1000 \div t.ticks_per_second
        accumulated  == t.accumulated_wait + (now - t.last_wait)
    IN  IF accumulated <= desired_wait
        THEN [timer |-> [t EXCEPT !.accumulated_wait = 0,
                                  !.last_wait = now + (desired_wait - accumulated)],
              blocks |-> desired_wait - accumulated]
        ELSE [timer |-> [t EXCEPT !.accumulated_wait = accumulated - desired_wait,
                                  !.last_wait = now],
              blocks |-> 0]

(***************************************************************************)
(* State.                                                                  *)
(***************************************************************************)
VARIABLES
    \* Server (server.rs)
    listener,         \* Option<P::Host>: TRUE when a listening transport is held
    remotes,          \* Vec<(Remote, D)>: a sequence of [remote, data]
    closed_indexes,   \* Vec<usize>
    timer,            \* the Server's reference Timer
    accepted_done, connected_done, closed_done,
    \* Client (client.rs), one per connection
    clients,
    \* the transport: the listener's accept queue and every connection's two ends
    pending, conns,
    \* the clock that Instant::now() and precise_time_ms() read, in ms
    clock,
    \* what the caller holds: the references the last accepted_with / connected
    \* iterator yields, and the Remotes the last closed() handed over
    yielded, closed,
    \* every closed() hand-over of a connection's Remote: the states it was handed over in
    returns,
    \* the frame decoder on its own: the frames encoded, the buffer, the internal
    \* queue, the application messages next() has returned, whether it returned
    \* none, and the bytes of the frames that the transport has not handed over yet
    frames, buffer, internal_queue, received, drained, arriving,
    \* a MovingAverage on its own, and the values it has been updated with
    average, samples,
    \* a Timer on its own, and its last receive(): the messages handed in and returned
    probe, answer,
    \* the application messages a Client's send() has written, and those the
    \* iterators of Remote::receive have returned, in order
    sent, delivered

serverVars == <<listener, remotes, closed_indexes, timer, accepted_done,
                connected_done, closed_done>>

netVars == <<clients, pending, conns>>

callerVars == <<yielded, closed, returns>>

codecVars == <<frames, buffer, internal_queue, received, drained, arriving>>

averageVars == <<average, samples>>

timerVars == <<probe, answer>>

traceVars == <<sent, delivered>>

\* the parts that are modelled on their own, and the record of the messages
unitVars == <<codecVars, averageVars, timerVars, traceVars>>

vars == <<serverVars, netVars, clock, callerVars, unitVars>>

(***************************************************************************)
(* The transport contract (protocol.rs) over a connection k:               *)
(* [server, client: "none" | "pending" | "open" | "shut", to_server,       *)
(*  to_client: the bytes in flight].  `me` is the end that calls.          *)
(***************************************************************************)
NoConnection == [server |-> "none", client |-> "none", to_server |-> <<>>,
                 to_client |-> <<>>]

Peer(me) == IF me = "server" THEN "client" ELSE "server"

Inbox(me) == IF me = "server" THEN "to_server" ELSE "to_client"

\* Connection::read: append what is there; a read of nothing from a stream that
\* has ended is an error (and the TCP backend then shuts the stream down)
Connection_read(k, incoming, me) ==
    IF k[me] = "open" /\ k[Inbox(me)] # <<>>
    THEN [conn |-> [k EXCEPT ![Inbox(me)] = <<>>], buffer |-> incoming \o k[Inbox(me)],
          ok |-> TRUE]
    ELSE IF k[me] = "shut" \/ k[Peer(me)] = "shut"
    THEN [conn |-> [k EXCEPT ![me] = "shut"], buffer |-> incoming, ok |-> FALSE]
    ELSE [conn |-> k, buffer |-> incoming, ok |-> TRUE]

\* Connection::write; `accepts` is whether the stream takes the bytes this time.
\* It never does once this end is shut down.
Connection_write(k, bytes, me, accepts) ==
    IF accepts /\ k[me] = "open"
    THEN [conn |-> IF k[Peer(me)] # "shut"
                   THEN [k EXCEPT ![Inbox(Peer(me))] = @ \o bytes] ELSE k,
          ok |-> TRUE]
    ELSE [conn |-> k, ok |-> FALSE]

\* Connection::shutdown
Connection_shutdown(k, me) == [k EXCEPT ![me] = "shut"]

\* connection.peer_addr(): a connection's peer address is its identity
peer_addr(c) == c

(***************************************************************************)
(* Remote (server.rs).  The operators take the Remote r and, where the     *)
(* code calls the transport, its connection k.                             *)
(***************************************************************************)
Remote_from_connection(connection, t) ==
    [connection |-> connection, incoming |-> <<>>, outgoing |-> <<>>,
     internal_messages |-> <<>>, timer |-> t, state |-> "Accepted"]

Remote_accepted(r) == r.state = "Accepted"

Remote_connected(r) == r.state = "Connected"

Remote_closed(r) == r.state = "Closed"

Remote_send_raw(r, prefix, bytes) == [r EXCEPT !.outgoing = @ \o Frame(prefix, bytes)]

Remote_send(r, message) == Remote_send_raw(r, 1, SerializeMessage(message))

\* a close() that does not look at the state it is called in
Remote_close_always(r) == [remote |-> [r EXCEPT !.state = "Closing"], res |-> "Ok"]

Remote_close(r) ==
    IF r.state \in {"Accepted", "Connected"}
    THEN [remote |-> [r EXCEPT !.state = "Closing"], res |-> "Ok"]
    ELSE [remote |-> r, res |-> "NotConnected"]

\* a try_connect() that leaves the Remote Accepted
try_connect_never(r) == r

\* a try_connect() that connects from any state
try_connect_always(r) == [r EXCEPT !.state = "Connected"]

try_connect(r) == IF Remote_accepted(r) THEN [r EXCEPT !.state = "Connected"] ELSE r

\* a try_close() that marks the Remote Closed and leaves the transport open
try_close_no_shutdown(r, k) ==
    IF r.state = "Closing"
    THEN [remote |-> [r EXCEPT !.state = "Closed"], conn |-> k]
    ELSE [remote |-> r, conn |-> k]

try_close(r, k) ==
    IF r.state = "Closing"
    THEN [remote |-> [r EXCEPT !.state = "Closed"],
          conn |-> Connection_shutdown(k, "server")]
    ELSE [remote |-> r, conn |-> k]

\* a read() that keeps only the bytes of this read
Remote_read_replacing(r, k) ==
    LET r1 == try_connect(r)
        rd == Connection_read(k, <<>>, "server")
        r2 == [r1 EXCEPT !.incoming = IF rd.buffer = <<>> THEN @ ELSE rd.buffer]
    IN  [remote |-> IF rd.ok THEN r2 ELSE Remote_close(r2).remote, conn |-> rd.conn]

\* a read() that drops the transport's error
Remote_read_ignoring(r, k) ==
    LET r1 == try_connect(r)
        rd == Connection_read(k, r1.incoming, "server")
    IN  [remote |-> [r1 EXCEPT !.incoming = rd.buffer], conn |-> rd.conn]

Remote_read(r, k) ==
    LET r1 == try_connect(r)
        rd == Connection_read(k, r1.incoming, "server")
        r2 == [r1 EXCEPT !.incoming = rd.buffer]
    IN  [remote |-> IF rd.ok THEN r2 ELSE Remote_close(r2).remote, conn |-> rd.conn]

\* the `for m in self.timer.receive(messages)` loop of Remote::write
RECURSIVE SendInternal(_, _)
SendInternal(r, messages) ==
    IF messages = <<>> THEN r
    ELSE SendInternal(Remote_send_raw(r, 0, SerializeInternal(Head(messages))),
                      Tail(messages))

\* the Remote with the Timer's answer tr taken over: its messages queued as frames
QueueInternal(r, tr) ==
    SendInternal([r EXCEPT !.internal_messages = <<>>, !.timer = tr.timer], tr.outgoing)

\* Remote::write up to the transport write
WriteQueued(r, now) ==
    QueueInternal(r, Timer_receive(r.timer, r.internal_messages, now))

\* a write() that closes only after a write that went through
WriteOutgoing_close_on_success(r, k, accepts) ==
    LET wr == IF r.outgoing # <<>>
              THEN Connection_write(k, r.outgoing, "server", accepts)
              ELSE [conn |-> k, ok |-> FALSE]
    IN  IF wr.ok THEN try_close([r EXCEPT !.outgoing = <<>>], wr.conn)
        ELSE [remote |-> r, conn |-> wr.conn]

\* a write() that clears the buffer whatever the transport answers
WriteOutgoing_clear_always(r, k, accepts) ==
    LET wr == IF r.outgoing # <<>>
              THEN Connection_write(k, r.outgoing, "server", accepts)
              ELSE [conn |-> k, ok |-> FALSE]
    IN  try_close([r EXCEPT !.outgoing = <<>>], wr.conn)

\* a write() that shuts the transport down before it hands the bytes over
WriteOutgoing_close_first(r, k, accepts) ==
    LET cl == try_close(r, k)
        wr == IF cl.remote.outgoing # <<>>
              THEN Connection_write(cl.conn, cl.remote.outgoing, "server", accepts)
              ELSE [conn |-> cl.conn, ok |-> FALSE]
    IN  [remote |-> IF wr.ok THEN [cl.remote EXCEPT !.outgoing = <<>>] ELSE cl.remote,
         conn |-> wr.conn]

\* Remote::write from the transport write on
WriteOutgoing(r, k, accepts) ==
    LET wr == IF r.outgoing # <<>>
              THEN Connection_write(k, r.outgoing, "server", accepts)
              ELSE [conn |-> k, ok |-> FALSE]
    IN  try_close(IF wr.ok THEN [r EXCEPT !.outgoing = <<>>] ELSE r, wr.conn)

Remote_write(r, k, accepts, now) == WriteOutgoing(WriteQueued(r, now), k, accepts)

(***************************************************************************)
(* Server (server.rs).                                                     *)
(***************************************************************************)
Conn(e) == e.remote.connection

ActiveConns == {Conn(remotes[i]) : i \in 1..Len(remotes)}

ClosedConns == {Conn(closed[i]) : i \in 1..Len(closed)}

IndexOf(entries, c) == CHOOSE i \in 1..Len(entries) : Conn(entries[i]) = c

\* the connections of the entries whose Remote is in one of the states
ConnsIn(entries, states) ==
    {Conn(entries[i]) : i \in {j \in 1..Len(entries) : entries[j].remote.state \in states}}

\* Vec::swap_remove at 0-based index: the last element takes the removed one's place
swap_remove(v, index) ==
    IF index + 1 = Len(v)
    THEN SubSeq(v, 1, Len(v) - 1)
    ELSE [SubSeq(v, 1, Len(v) - 1) EXCEPT ![index + 1] = v[Len(v)]]

\* a bind() that resets the Timer even when a listener is held
Server_bind_resets(bound, now) ==
    IF ~listener /\ ~bound
    THEN [listener |-> FALSE, timer |-> timer, res |-> "AddrInUse"]
    ELSE [listener |-> TRUE, timer |-> Timer_reset(timer, now),
          res |-> IF listener THEN "AlreadyExists" ELSE "Ok"]

\* Server::bind: its result, and the listener and Timer after it; bound is whether
\* P::Host::bind succeeds
Server_bind(bound, now) ==
    IF ~listener
    THEN IF bound
         THEN [listener |-> TRUE, timer |-> Timer_reset(timer, now), res |-> "Ok"]
         ELSE [listener |-> FALSE, timer |-> timer, res |-> "AddrInUse"]
    ELSE [listener |-> TRUE, timer |-> timer, res |-> "AlreadyExists"]

BindWith(bound) ==
    /\ listener' = Server_bind(bound, clock).listener
    /\ timer' = Server_bind(bound, clock).timer
    /\ yielded' = {}
    /\ closed' = <<>>
    /\ UNCHANGED <<remotes, closed_indexes, accepted_done, connected_done,
                   closed_done, netVars, clock, returns, unitVars>>

Bind == \E bound \in BOOLEAN : BindWith(bound)

RECURSIVE AcceptLoop(_, _, _, _)
\* an accept loop that drops a refused connection without shutting it down
AcceptLoop_no_shutdown(queue, entries, cs, factory) ==
    IF queue = <<>>
    THEN [remotes |-> entries, conns |-> cs]
    ELSE LET c == Head(queue)
             k == [cs[c] EXCEPT !.server = "open"]
         IN  IF peer_addr(c) \in factory
             THEN AcceptLoop(Tail(queue),
                             Append(entries,
                                    [remote |-> Remote_from_connection(
                                                    c, Timer_clone(timer, clock)),
                                     data |-> [peer |-> peer_addr(c)]]),
                             [cs EXCEPT ![c] = k], factory)
             ELSE AcceptLoop(Tail(queue), entries, [cs EXCEPT ![c] = k], factory)

\* the `while let Ok(connection) = listener.accept()` loop of accepted_with:
\* factory is the set of peers the caller's closure answers Some(data) for
AcceptLoop(queue, entries, cs, factory) ==
    IF queue = <<>>
    THEN [remotes |-> entries, conns |-> cs]
    ELSE LET c == Head(queue)
             k == [cs[c] EXCEPT !.server = "open"]
         IN  IF peer_addr(c) \in factory
             THEN AcceptLoop(Tail(queue),
                             Append(entries,
                                    [remote |-> Remote_from_connection(
                                                    c, Timer_clone(timer, clock)),
                                     data |-> [peer |-> peer_addr(c)]]),
                             [cs EXCEPT ![c] = k], factory)
             ELSE AcceptLoop(Tail(queue), entries,
                             [cs EXCEPT ![c] = Connection_shutdown(k, "server")],
                             factory)

\* an accepted_with that accepts on every call
AcceptedWithFactory_unguarded(factory) ==
    LET acc == IF listener
               THEN AcceptLoop(pending, remotes, conns, factory)
               ELSE [remotes |-> remotes, conns |-> conns]
    IN  /\ accepted_done' = TRUE
        /\ remotes' = acc.remotes
        /\ conns' = acc.conns
        /\ pending' = IF listener THEN <<>> ELSE pending
        /\ yielded' = ConnsIn(acc.remotes, {"Accepted"})
        /\ closed' = <<>>
        /\ UNCHANGED <<listener, closed_indexes, timer, connected_done,
                       closed_done, clients, clock, returns, unitVars>>

\* Server::accepted_with
AcceptedWithFactory(factory) ==
    LET run == ~accepted_done /\ listener
        acc == IF run
               THEN AcceptLoop(pending, remotes, conns, factory)
               ELSE [remotes |-> remotes, conns |-> conns]
    IN  /\ accepted_done' = TRUE
        /\ remotes' = acc.remotes
        /\ conns' = acc.conns
        /\ pending' = IF run THEN <<>> ELSE pending
        /\ yielded' = ConnsIn(acc.remotes, {"Accepted"})
        /\ closed' = <<>>
        /\ UNCHANGED <<listener, closed_indexes, timer, connected_done,
                       closed_done, clients, clock, returns, unitVars>>

AcceptedWith ==
    \E factory \in SUBSET (IF ~accepted_done /\ listener THEN Range(pending) ELSE {}) :
        AcceptedWithFactory(factory)

\* a connected that reads on every call
Connected_unguarded ==
    LET rd(i) == IF listener
                 THEN Remote_read(remotes[i].remote, conns[Conn(remotes[i])])
                 ELSE [remote |-> remotes[i].remote, conn |-> conns[Conn(remotes[i])]]
        after == [i \in 1..Len(remotes) |-> [remotes[i] EXCEPT !.remote = rd(i).remote]]
    IN  /\ connected_done' = TRUE
        /\ remotes' = after
        /\ conns' = [c \in DOMAIN conns |->
                         IF c \in ActiveConns
                         THEN rd(IndexOf(remotes, c)).conn ELSE conns[c]]
        /\ yielded' = ConnsIn(after, {"Connected"})
        /\ closed' = <<>>
        /\ UNCHANGED <<listener, closed_indexes, timer, accepted_done, closed_done,
                       clients, pending, clock, returns, unitVars>>

\* Server::connected
Connected ==
    LET run   == ~connected_done
        rd(i) == IF listener
                 THEN Remote_read(remotes[i].remote, conns[Conn(remotes[i])])
                 ELSE [remote |-> remotes[i].remote, conn |-> conns[Conn(remotes[i])]]
        after == IF run
                 THEN [i \in 1..Len(remotes) |-> [remotes[i] EXCEPT !.remote = rd(i).remote]]
                 ELSE remotes
    IN  /\ connected_done' = TRUE
        /\ remotes' = after
        /\ conns' = IF run
                    THEN [c \in DOMAIN conns |->
                              IF c \in ActiveConns
                              THEN rd(IndexOf(remotes, c)).conn ELSE conns[c]]
                    ELSE conns
        /\ yielded' = ConnsIn(after, {"Connected"})
        /\ closed' = <<>>
        /\ UNCHANGED <<listener, closed_indexes, timer, accepted_done, closed_done,
                       clients, pending, clock, returns, unitVars>>

\* the removal loop of Server::closed:
\* for (offset, index) in closed_indexes.iter().enumerate() { swap_remove(index - offset) }
RECURSIVE RemoveClosed(_, _, _, _)
RemoveClosed(entries, indexes, offset, out) ==
    IF offset = Len(indexes)
    THEN [remotes |-> entries, closed |-> out]
    ELSE LET at == indexes[offset + 1] - offset
         IN  RemoveClosed(swap_remove(entries, at), indexes, offset + 1,
                          Append(out, entries[at + 1]))

\* the indexes the write loop of Server::closed pushes, in order
RECURSIVE PushClosed(_, _, _)
PushClosed(entries, i, indexes) ==
    IF i > Len(entries) THEN indexes
    ELSE PushClosed(entries, i + 1,
                    IF Remote_closed(entries[i].remote)
                    THEN Append(indexes, i - 1) ELSE indexes)

\* the connections whose Remote would hand bytes to the transport in a write() now
Writers ==
    {c \in ActiveConns :
        /\ conns[c].server = "open"
        /\ WriteQueued(remotes[IndexOf(remotes, c)].remote, clock).outgoing # <<>>}

\* the write loop of Server::closed without the index bookkeeping: what write()
\* makes of every Remote and its connection; accepts is the set of connections
\* whose stream takes a write now
WriteAll(accepts) ==
    [i \in 1..Len(remotes) |->
        Remote_write(remotes[i].remote, conns[Conn(remotes[i])],
                     Conn(remotes[i]) \in accepts, clock)]

\* no write(): every Remote and its connection as they are
WriteNone ==
    [i \in 1..Len(remotes) |->
        [remote |-> remotes[i].remote, conn |-> conns[Conn(remotes[i])]]]

\* Server::closed, given what the write loop made of the Remotes
ClosedAfter(wr) ==
    LET written == [i \in 1..Len(remotes) |-> [remotes[i] EXCEPT !.remote = wr[i].remote]]
        indexes == IF ~closed_done THEN PushClosed(written, 1, closed_indexes)
                   ELSE closed_indexes
        swept   == RemoveClosed(written, indexes, 0, <<>>)
    IN  /\ closed_done' = TRUE
        /\ remotes' = swept.remotes
        /\ closed_indexes' = <<>>
        /\ conns' = [c \in DOMAIN conns |->
                         IF c \in ActiveConns THEN wr[IndexOf(remotes, c)].conn
                         ELSE conns[c]]
        /\ closed' = swept.closed
        /\ yielded' = {}
        /\ returns' = [c \in DOMAIN returns |->
                           IF \E i \in 1..Len(swept.closed) : Conn(swept.closed[i]) = c
                           THEN Append(returns[c],
                                       swept.closed[IndexOf(swept.closed, c)].remote.state)
                           ELSE returns[c]]
        /\ UNCHANGED <<listener, timer, accepted_done, connected_done, clients,
                       pending, clock, unitVars>>

\* Server::closed
ClosedWith(accepts) == ClosedAfter(IF ~closed_done THEN WriteAll(accepts) ELSE WriteNone)

Closed ==
    \E accepts \in SUBSET (IF ~closed_done THEN Writers ELSE {}) : ClosedWith(accepts)

\* Server::sleep, given what the Timer's sleep() s answers and the time at which
\* the next call of any thread is made
SleepUntil(s, next) ==
    /\ accepted_done' = FALSE
    /\ connected_done' = FALSE
    /\ closed_done' = FALSE
    /\ timer' = s.timer
    /\ clock' = next
    /\ yielded' = {}
    /\ closed' = <<>>
    /\ UNCHANGED <<listener, remotes, closed_indexes, netVars, returns, unitVars>>

\* Server::sleep with nothing else running while it blocks, as long as the clock
\* stays within the bound
SleepWithin(bound) ==
    /\ clock + Timer_sleep(timer, clock).blocks <= bound
    /\ SleepUntil(Timer_sleep(timer, clock), clock + Timer_sleep(timer, clock).blocks)

Sleep == SleepWithin(MaxClock)

\* a shutdown() that closes the Remotes but keeps them in the active set
Server_shutdown_keeps_remotes ==
    IF listener
    THEN [res |-> "Ok", remotes |-> remotes, closed_indexes |-> <<>>,
          pending |-> <<>>,
          conns |-> [c \in DOMAIN conns |->
                        IF c \in ActiveConns
                        THEN try_close(Remote_close(remotes[IndexOf(remotes, c)].remote).remote,
                                       conns[c]).conn
                        ELSE IF c \in Range(pending)
                        THEN Connection_shutdown(conns[c], "server") ELSE conns[c]]]
    ELSE [res |-> "NotConnected", remotes |-> remotes,
          closed_indexes |-> closed_indexes, pending |-> pending, conns |-> conns]

\* Server::shutdown: its result, and the Server and the transports after it
Server_shutdown ==
    IF listener
    THEN [res |-> "Ok", remotes |-> <<>>, closed_indexes |-> <<>>,
          \* the listening transport is dropped, and its accept queue with it
          pending |-> <<>>,
          conns |-> [c \in DOMAIN conns |->
                        IF c \in ActiveConns
                        THEN try_close(Remote_close(remotes[IndexOf(remotes, c)].remote).remote,
                                       conns[c]).conn
                        ELSE IF c \in Range(pending)
                        THEN Connection_shutdown(conns[c], "server") ELSE conns[c]]]
    ELSE [res |-> "NotConnected", remotes |-> remotes,
          closed_indexes |-> closed_indexes, pending |-> pending, conns |-> conns]

Shutdown ==
    /\ listener' = FALSE
    /\ remotes' = Server_shutdown.remotes
    /\ closed_indexes' = Server_shutdown.closed_indexes
    /\ pending' = Server_shutdown.pending
    /\ conns' = Server_shutdown.conns
    /\ yielded' = {}
    /\ closed' = <<>>
    /\ UNCHANGED <<timer, accepted_done, connected_done, closed_done, clients,
                   clock, returns, unitVars>>

(***************************************************************************)
(* The caller's calls on a Remote it holds: a reference the last           *)
(* accepted_with / connected iterator yielded, or a Remote closed() handed *)
(* over.                                                                   *)
(***************************************************************************)
Held == yielded \cup ClosedConns

HeldRemote(c) ==
    IF c \in yielded THEN remotes[IndexOf(remotes, c)].remote
    ELSE closed[IndexOf(closed, c)].remote

\* the Remote of connection c becomes r, wherever the caller holds it
PutRemote(c, r) ==
    IF c \in yielded
    THEN /\ remotes' = [remotes EXCEPT ![IndexOf(remotes, c)].remote = r]
         /\ closed' = closed
    ELSE /\ closed' = [closed EXCEPT ![IndexOf(closed, c)].remote = r]
         /\ remotes' = remotes

\* Remote::send, as long as the bytes queued and in flight stay within the bound
RemoteSend(c, message) ==
    /\ c \in Held
    /\ Len(HeldRemote(c).outgoing) + Len(conns[c].to_client)
           + Len(MessageFrame(message)) <= MaxBuffer
    /\ PutRemote(c, Remote_send(HeldRemote(c), message))
    /\ UNCHANGED <<listener, closed_indexes, timer, accepted_done, connected_done,
                   closed_done, netVars, clock, yielded, returns, unitVars>>

\* Remote::receive and one next() of the iterator it returns
RemoteNext(c) ==
    /\ c \in Held
    /\ LET r == HeldRemote(c)
           n == MessageIterator_next(r.incoming, r.internal_messages)
       IN  PutRemote(c, [r EXCEPT !.incoming = n.buffer,
                                  !.internal_messages = n.internal_queue])
    /\ UNCHANGED <<listener, closed_indexes, timer, accepted_done, connected_done,
                   closed_done, netVars, clock, yielded, returns>>

RemoteReceive(c) == RemoteNext(c) /\ UNCHANGED unitVars

\* Remote::close
RemoteClose(c) ==
    /\ c \in Held
    /\ PutRemote(c, Remote_close(HeldRemote(c)).remote)
    /\ UNCHANGED <<listener, closed_indexes, timer, accepted_done, connected_done,
                   closed_done, netVars, clock, yielded, returns, unitVars>>

(***************************************************************************)
(* Client (client.rs).  Client c is the peer of connection c.              *)
(***************************************************************************)
Client_new(ticks_per_second, instant) ==
    [connection |-> None, incoming |-> <<>>, internal_messages |-> <<>>,
     timer |-> Timer_new(ticks_per_second, instant)]

\* Client::connect: its result and the Client after it; connection is what
\* P::Connection::connect answers when it connects
Client_connect(cl, connection, connects, now) ==
    IF ~cl.connection.some
    THEN IF connects
         THEN [client |-> [cl EXCEPT !.connection = Some(connection),
                                     !.timer = Timer_reset(@, now)],
               res |-> "Ok"]
         ELSE [client |-> cl, res |-> "ConnectionRefused"]
    ELSE [client |-> cl, res |-> "AlreadyExists"]

\* Client c calls connect(), and the transport would hand it connection k; it
\* connects when a listener is bound
ClientConnectTo(c, k) ==
    /\ clients' = [clients EXCEPT ![c] = Client_connect(@, k, listener, clock).client]
    /\ conns' = IF Client_connect(clients[c], k, listener, clock).res = "Ok"
                THEN [conns EXCEPT ![k].client = "open", ![k].server = "pending"]
                ELSE conns
    /\ pending' = IF Client_connect(clients[c], k, listener, clock).res = "Ok"
                  THEN Append(pending, k) ELSE pending
    /\ UNCHANGED <<serverVars, clock, callerVars, unitVars>>

\* each Client has one connection, and they take them in the order of their numbers
ClientConnect(c) ==
    /\ clients[c].connection.some \/ conns[c].client = "none"
    /\ \A b \in DOMAIN conns : b < c => conns[b].client # "none"
    /\ ClientConnectTo(c, c)

\* the bytes of connection c that are on their way to the caller of Remote::receive
ServerBound(c) ==
    Len(conns[c].to_server)
        + (IF c \in ActiveConns THEN Len(remotes[IndexOf(remotes, c)].remote.incoming)
           ELSE 0)

\* Client::send, as long as the bytes in flight stay within the bound
ClientSendWithin(c, message, accepts, bound) ==
    /\ clients[c].connection.some
    /\ ServerBound(c) + Len(MessageFrame(message)) <= bound
    /\ conns' = [conns EXCEPT ![c] = Connection_write(@, MessageFrame(message),
                                                      "client", accepts).conn]
    /\ UNCHANGED <<serverVars, clients, pending, clock, callerVars>>

ClientSendWith(c, message, accepts) ==
    ClientSendWithin(c, message, accepts, MaxBuffer) /\ UNCHANGED unitVars

\* the example Client sends Text
ClientSend(c) ==
    \E accepts \in (IF conns[c].client = "open" THEN BOOLEAN ELSE {FALSE}) :
        ClientSendWith(c, "Text", accepts)

\* Client::receive and the caller's loop over the iterator it returns
ClientReceive(c) ==
    /\ clients[c].connection.some
    /\ LET rd == Connection_read(conns[clients[c].connection.value],
                                 clients[c].incoming, "client")
           it == DrainIterator(rd.buffer, clients[c].internal_messages, <<>>)
       IN  /\ conns' = [conns EXCEPT ![clients[c].connection.value] = rd.conn]
           /\ clients' = IF rd.ok
                         THEN [clients EXCEPT ![c].incoming = it.buffer,
                                              ![c].internal_messages = it.internal_queue]
                         ELSE clients
    /\ UNCHANGED <<serverVars, pending, clock, callerVars, unitVars>>

\* the `for m in self.timer.receive(messages)` loop of Client::sleep: send_raw
\* writes every message to the transport at once, and its result is dropped
RECURSIVE ClientWriteInternal(_, _, _)
ClientWriteInternal(k, messages, accepts) ==
    IF messages = <<>> THEN k
    ELSE ClientWriteInternal(
             Connection_write(k, InternalFrame(Head(messages)), "client", accepts).conn,
             Tail(messages), accepts)

\* Client::sleep, given the Timer's answer tr to the queued internal messages:
\* the Client and its connection k after it, and the time it blocks
ClientSlept(cl, tr, k, now, accepts) ==
    [client |-> [cl EXCEPT !.internal_messages = <<>>,
                           !.timer = Timer_sleep(tr.timer, now).timer],
     conn |-> IF cl.connection.some THEN ClientWriteInternal(k, tr.outgoing, accepts)
              ELSE k,
     blocks |-> Timer_sleep(tr.timer, now).blocks]

Client_sleep(cl, k, now, accepts) ==
    ClientSlept(cl, Timer_receive(cl.timer, cl.internal_messages, now), k, now, accepts)

\* the state after Client c's sleep() s: the other threads run while it blocks
ClientSleepAfter(c, s) ==
    /\ clients' = [clients EXCEPT ![c] = s.client]
    /\ conns' = IF clients[c].connection.some
                THEN [conns EXCEPT ![clients[c].connection.value] = s.conn]
                ELSE conns
    /\ UNCHANGED <<serverVars, pending, clock, callerVars, unitVars>>

\* Client::sleep over a transport that takes every write
ClientSleep(c) ==
    ClientSleepAfter(c, Client_sleep(clients[c],
                                     IF clients[c].connection.some
                                     THEN conns[clients[c].connection.value]
                                     ELSE NoConnection,
                                     clock, TRUE))

\* Client::disconnect
ClientDisconnect(c) ==
    /\ IF clients[c].connection.some
       THEN /\ clients' = [clients EXCEPT ![c].connection = None]
            /\ conns' = [conns EXCEPT ![clients[c].connection.value] =
                                          Connection_shutdown(@, "client")]
       ELSE UNCHANGED <<clients, conns>>
    /\ UNCHANGED <<serverVars, pending, clock, callerVars, unitVars>>

(***************************************************************************)
(* The program: a Server and n Clients, every call in any order.  The      *)
(* messages are those of examples/basic.rs: the server's caller sends      *)
(* Hello to a Remote, a Client sends Text.                                 *)
(***************************************************************************)
\* a Server, n Clients and room for m connections
InitWith(n, m) ==
    /\ listener = FALSE
    /\ remotes = <<>>
    /\ closed_indexes = <<>>
    /\ timer = Timer_new(TicksPerSecond, 0)
    /\ accepted_done = FALSE
    /\ connected_done = FALSE
    /\ closed_done = FALSE
    /\ clients = [c \in 1..n |-> Client_new(TicksPerSecond, 0)]
    /\ pending = <<>>
    /\ conns = [c \in 1..m |-> NoConnection]
    /\ clock = 0
    /\ yielded = {}
    /\ closed = <<>>
    /\ returns = [c \in 1..m |-> <<>>]

InitServer(n) == InitWith(n, n)

InitCodecIdle ==
    /\ frames = <<>>
    /\ buffer = <<>>
    /\ internal_queue = <<>>
    /\ received = <<>>
    /\ drained = FALSE
    /\ arriving = <<>>

InitAverageIdle ==
    /\ average = MovingAverage_new(AVERAGE_SIZE)
    /\ samples = <<>>

InitTimerIdle ==
    /\ probe = Timer_new(TicksPerSecond, 0)
    /\ answer = [messages |-> <<>>, outgoing |-> <<>>]

InitTraceIdle ==
    /\ sent = <<>>
    /\ delivered = <<>>

InitUnitsIdle == InitCodecIdle /\ InitAverageIdle /\ InitTimerIdle /\ InitTraceIdle

Init == InitServer(MaxConns) /\ InitUnitsIdle

Next ==
    \/ Bind
    \/ AcceptedWith
    \/ Connected
    \/ Closed
    \/ Sleep
    \/ Shutdown
    \/ \E c \in DOMAIN conns : RemoteSend(c, "Hello")
    \/ \E c \in DOMAIN conns : RemoteReceive(c)
    \/ \E c \in DOMAIN conns : RemoteClose(c)
    \/ \E c \in DOMAIN conns : ClientConnect(c)
    \/ \E c \in DOMAIN conns : ClientSend(c)
    \/ \E c \in DOMAIN conns : ClientReceive(c)
    \/ \E c \in DOMAIN conns : ClientDisconnect(c)

Spec == Init /\ [][Next]_vars

(***************************************************************************)
(* The server loop of examples/basic.rs: bind, then per tick accepted,     *)
(* connected, closed, sleep, with the caller closing Remotes and the       *)
(* Clients connecting and disconnecting in between.                        *)
(***************************************************************************)
LoopInit == InitServer(LoopConns) /\ InitUnitsIdle

LoopNext ==
    \/ ~listener /\ BindWith(TRUE)
    \/ listener /\ ~accepted_done /\ AcceptedWithFactory(Range(pending))
    \/ listener /\ accepted_done /\ ~connected_done /\ Connected
    \/ listener /\ connected_done /\ ~closed_done /\ ClosedWith(Writers)
    \/ listener /\ closed_done /\ Sleep
    \/ \E c \in DOMAIN conns : RemoteClose(c)
    \/ \E c \in DOMAIN conns : ClientConnect(c)
    \/ \E c \in DOMAIN conns : ClientDisconnect(c)

SpecLoop == LoopInit /\ [][LoopNext]_vars

(***************************************************************************)
(* One Client that connects, disconnects and connects again, each time     *)
(* over a new connection, to a Server that is bound, shut down and bound   *)
(* again.  The factory takes every connection, as in examples/basic.rs.    *)
(***************************************************************************)
ReconnectInit == InitWith(1, MaxReconnects) /\ InitUnitsIdle

\* the connection a connect() gets: the first one not used yet
NextConnection(k) ==
    /\ conns[k].client = "none"
    /\ \A b \in DOMAIN conns : b < k => conns[b].client # "none"

ReconnectNext ==
    \/ Bind
    \/ AcceptedWithFactory(Range(pending))
    \/ Connected
    \/ Closed
    \/ Sleep
    \/ Shutdown
    \/ \E k \in DOMAIN conns : NextConnection(k) /\ ClientConnectTo(1, k)
    \/ ClientDisconnect(1)

SpecReconnect == ReconnectInit /\ [][ReconnectNext]_vars

(***************************************************************************)
(* Delivery: the server loop of examples/basic.rs with the caller reading  *)
(* the connected Remotes, and one Client that connects, sends, receives    *)
(* and sleeps, each in its own thread, over a transport that takes every   *)
(* write and delivers it whole and in order.  A thread that has called     *)
(* sleep() makes its next call when the time it blocks is over: its        *)
(* Timer's last_wait.  The calls themselves take no time.  The clock runs  *)
(* long enough for both sides' Timers to send Pings and answer them.       *)
(***************************************************************************)
DeliveryInit == InitWith(1, 1) /\ InitUnitsIdle

ServerAwake == clock >= timer.last_wait

ClientAwake(c) == clock >= clients[c].timer.last_wait

\* every thread blocks in sleep(): the clock moves on to the first one's wake-up
Elapse ==
    /\ ~ServerAwake
    /\ \A c \in DOMAIN clients : ~ClientAwake(c)
    /\ \E wake \in {timer.last_wait} \cup {clients[c].timer.last_wait : c \in DOMAIN clients} :
           /\ wake <= timer.last_wait
           /\ \A c \in DOMAIN clients : wake <= clients[c].timer.last_wait
           /\ wake <= MaxDeliveryClock
           /\ clock' = wake
    /\ UNCHANGED <<serverVars, netVars, callerVars, unitVars>>

\* the caller's `for m in remote.receive()`, one next() at a time
DeliveryReceive(c) ==
    /\ RemoteNext(c)
    /\ delivered' =
           delivered \o
               (IF MessageIterator_next(HeldRemote(c).incoming,
                                        HeldRemote(c).internal_messages).message.some
                THEN <<MessageIterator_next(HeldRemote(c).incoming,
                                            HeldRemote(c).internal_messages).message.value>>
                ELSE <<>>)
    /\ UNCHANGED <<codecVars, averageVars, timerVars, sent>>

\* Client::send of one of the example's messages
DeliverySend(c, message) ==
    /\ Len(sent) < MaxSent
    /\ conns[c].client = "open"
    /\ ClientSendWithin(c, message, TRUE, MaxInFlight)
    /\ sent' = Append(sent, message)
    /\ UNCHANGED <<codecVars, averageVars, timerVars, delivered>>

DeliveryNext ==
    \/ ServerAwake /\ ~listener /\ BindWith(TRUE)
    \/ ServerAwake /\ listener /\ ~accepted_done /\ AcceptedWithFactory(Range(pending))
    \/ ServerAwake /\ listener /\ accepted_done /\ ~connected_done /\ Connected
    \/ ServerAwake /\ listener /\ connected_done /\ ~closed_done
           /\ \E c \in yielded : DeliveryReceive(c)
    \/ ServerAwake /\ listener /\ connected_done /\ ~closed_done /\ ClosedWith(Writers)
    \/ ServerAwake /\ listener /\ closed_done
           /\ SleepUntil(Timer_sleep(timer, clock), clock)
    \/ \E c \in DOMAIN clients : ClientAwake(c) /\ ClientConnect(c)
    \/ \E c \in DOMAIN clients, message \in Message :
           ClientAwake(c) /\ DeliverySend(c, message)
    \/ \E c \in DOMAIN clients : ClientAwake(c) /\ ClientReceive(c)
    \/ \E c \in DOMAIN clients : ClientAwake(c) /\ ClientSleep(c)
    \/ Elapse

SpecDelivery == DeliveryInit /\ [][DeliveryNext]_vars

(***************************************************************************)
(* Control traffic: the server loop of examples/basic.rs with the caller   *)
(* reading the connected Remotes, and one Client that connects, receives,  *)
(* sleeps, disconnects and connects again over a new connection.  No       *)
(* application message is sent: the Pings and Pongs of the Timers are all  *)
(* the traffic.  Time passes as in the delivery model.                     *)
(***************************************************************************)
ControlInit == InitWith(1, MaxReconnects) /\ InitUnitsIdle

ControlNext ==
    \/ ServerAwake /\ ~listener /\ BindWith(TRUE)
    \/ ServerAwake /\ listener /\ ~accepted_done /\ AcceptedWithFactory(Range(pending))
    \/ ServerAwake /\ listener /\ accepted_done /\ ~connected_done /\ Connected
    \/ ServerAwake /\ listener /\ connected_done /\ ~closed_done
           /\ \E c \in yielded : RemoteReceive(c)
    \/ ServerAwake /\ listener /\ connected_done /\ ~closed_done /\ ClosedWith(Writers)
    \/ ServerAwake /\ listener /\ closed_done
           /\ SleepUntil(Timer_sleep(timer, clock), clock)
    \/ \E k \in DOMAIN conns : ClientAwake(1) /\ NextConnection(k) /\ ClientConnectTo(1, k)
    \/ ClientAwake(1) /\ ClientReceive(1)
    \/ ClientAwake(1) /\ ClientSleep(1)
    \/ ClientAwake(1) /\ ClientDisconnect(1)
    \/ Elapse

SpecControl == ControlInit /\ [][ControlNext]_vars

(***************************************************************************)
(* The frame decoder on its own (message.rs): a buffer holding the         *)
(* encodings of a sequence of frames, read by next() until it returns none.*)
(***************************************************************************)
\* the frames a stream is made of: application messages and internal messages
FrameKinds ==
    {[prefix |-> 1, message |-> m] : m \in Message}
        \cup {[prefix |-> 0, message |-> Ping(1, U64(1))],
              [prefix |-> 0, message |-> Pong(0, U64(257), U64(1))]}

EncodeFrame(f) ==
    IF f.prefix = 0 THEN InternalFrame(f.message) ELSE MessageFrame(f.message)

RECURSIVE EncodeFrames(_)
EncodeFrames(fs) == IF fs = <<>> THEN <<>> ELSE EncodeFrame(Head(fs)) \o EncodeFrames(Tail(fs))

FrameSeqs == UNION {[1..n -> FrameKinds] : n \in 0..MaxFrames}

CodecInit ==
    /\ InitServer(0)
    /\ InitAverageIdle
    /\ InitTimerIdle
    /\ InitTraceIdle
    /\ frames \in FrameSeqs
    /\ buffer = EncodeFrames(frames)
    /\ internal_queue = <<>>
    /\ received = <<>>
    /\ drained = FALSE
    /\ arriving = <<>>

\* one call of MessageIterator::next
CodecStep ==
    /\ ~drained
    /\ LET n == MessageIterator_next(buffer, internal_queue)
       IN  /\ buffer' = n.buffer
           /\ internal_queue' = n.internal_queue
           /\ received' = IF n.message.some THEN Append(received, n.message.value)
                          ELSE received
           /\ drained' = ~n.message.some
    /\ UNCHANGED <<frames, arriving, serverVars, netVars, clock, callerVars,
                   averageVars, timerVars, traceVars>>

CodecNext == CodecStep

SpecCodec == CodecInit /\ [][CodecNext]_vars

(***************************************************************************)
(* The frame decoder behind a transport that hands the stream over in two  *)
(* reads (Client::receive, Remote::read): Connection::read appends what    *)
(* has arrived to the buffer, next() is called in between.                 *)
(***************************************************************************)
SplitInit ==
    /\ InitServer(0)
    /\ InitAverageIdle
    /\ InitTimerIdle
    /\ InitTraceIdle
    /\ frames \in FrameSeqs
    /\ \E k \in 0..Len(EncodeFrames(frames)) :
           /\ buffer = SubSeq(EncodeFrames(frames), 1, k)
           /\ arriving = SliceFrom(EncodeFrames(frames), k)
    /\ internal_queue = <<>>
    /\ received = <<>>
    /\ drained = FALSE

\* connection.read(&mut self.incoming) when the rest of the stream has arrived,
\* and a new iterator
SplitRead ==
    /\ arriving # <<>>
    /\ buffer' = buffer \o arriving
    /\ arriving' = <<>>
    /\ drained' = FALSE
    /\ UNCHANGED <<frames, internal_queue, received, serverVars, netVars, clock,
                   callerVars, averageVars, timerVars, traceVars>>

SplitNext ==
    \/ CodecStep
    \/ SplitRead

SpecSplit == SplitInit /\ [][SplitNext]_vars

(***************************************************************************)
(* A MovingAverage on its own (time.rs), updated the way Timer::receive    *)
(* updates its round trip time: with ratio 1.0.                            *)
(***************************************************************************)
\* round trip times are halves of whole milliseconds
SampleValues == {RatInt(0), RatInt(3), Rat(5, 2)}

AverageInit ==
    /\ InitServer(0)
    /\ InitCodecIdle
    /\ InitTimerIdle
    /\ InitTraceIdle
    /\ average \in {MovingAverage_new(size) : size \in 1..MaxAverageSize}
    /\ samples = <<>>

AverageUpdate(value) ==
    /\ Len(samples) < MaxSamples
    /\ average' = MovingAverage_update(average, value, RatInt(1))
    /\ samples' = Append(samples, value)
    /\ UNCHANGED <<serverVars, netVars, clock, callerVars, codecVars, timerVars,
                   traceVars>>

AverageNext == \E value \in SampleValues : AverageUpdate(value)

SpecAverage == AverageInit /\ [][AverageNext]_vars

(***************************************************************************)
(* A Timer on its own (time.rs): the caller works for a while, then calls  *)
(* sleep().                                                                *)
(***************************************************************************)
\* the tick rates of the Timers modelled on their own
ProbeRates == {TicksPerSecond, 2 * TicksPerSecond}

\* the time the caller's work between two calls takes (ms)
WorkTimes == {40, 100, 140}

SleepInit ==
    /\ InitServer(0)
    /\ InitCodecIdle
    /\ InitAverageIdle
    /\ InitTraceIdle
    /\ probe \in {Timer_new(rate, 0) : rate \in ProbeRates}
    /\ answer = [messages |-> <<>>, outgoing |-> <<>>]

\* the caller's work: time passes
Work(elapsed) ==
    /\ clock + elapsed <= MaxProbeClock
    /\ clock' = clock + elapsed
    /\ UNCHANGED <<serverVars, netVars, callerVars, unitVars>>

\* Timer::sleep, and the time it blocks
ProbeSleep ==
    /\ clock + Timer_sleep(probe, clock).blocks <= MaxProbeClock
    /\ probe' = Timer_sleep(probe, clock).timer
    /\ clock' = clock + Timer_sleep(probe, clock).blocks
    /\ UNCHANGED <<serverVars, netVars, callerVars, codecVars, averageVars, answer,
                   traceVars>>

SleepNext ==
    \/ \E elapsed \in WorkTimes : Work(elapsed)
    \/ ProbeSleep

SpecSleep == SleepInit /\ [][SleepNext]_vars

(***************************************************************************)
(* A Timer on its own (time.rs): time passes, and receive() is called with *)
(* the internal messages a peer has sent.                                  *)
(***************************************************************************)
\* the ticks the Timers start at: a new one, and one about to wrap around
StartTicks == {0, 254}

\* the time that passes between two calls: the time after which the faster
\* Timer sends its next Ping, and one millisecond more
PingWaits ==
    {8 * (1000 \div (2 * TicksPerSecond)), 8 * (1000 \div (2 * TicksPerSecond)) + 1}

\* the internal messages a peer sends
IncomingKinds == {Ping(1, U64(5)), Ping(2, U64(7)), Pong(0, U64(0), U64(3))}

IncomingSeqs == UNION {[1..n -> IncomingKinds] : n \in 0..MaxIncoming}

ReceiveInit ==
    /\ InitServer(0)
    /\ InitCodecIdle
    /\ InitAverageIdle
    /\ InitTraceIdle
    /\ probe \in {[Timer_new(rate, 0) EXCEPT !.tick = tick] :
                      rate \in ProbeRates, tick \in StartTicks}
    /\ answer = [messages |-> <<>>, outgoing |-> <<>>]

\* Timer::receive, as long as the Timer is within MaxReceives calls of a start
\* tick and has taken in no more than MaxPongs Pongs
ProbeReceive(messages) ==
    /\ \E tick \in StartTicks : (probe.tick - tick) % 256 < MaxReceives
    /\ probe.average_rtt.used
           + Cardinality({i \in 1..Len(messages) : messages[i].type = "Pong"}) <= MaxPongs
    /\ probe' = Timer_receive(probe, messages, clock).timer
    /\ answer' = [messages |-> messages,
                  outgoing |-> Timer_receive(probe, messages, clock).outgoing]
    /\ UNCHANGED <<serverVars, netVars, clock, callerVars, codecVars, averageVars,
                   traceVars>>

ReceiveNext ==
    \/ \E elapsed \in PingWaits : Work(elapsed)
    \/ \E messages \in IncomingSeqs : ProbeReceive(messages)

SpecReceive == ReceiveInit /\ [][ReceiveNext]_vars

(***************************************************************************)
(* A Timer on its own (time.rs): time passes, and receive() is called with *)
(* the first Pong the Timer takes in.                                      *)
(***************************************************************************)
\* the times a Pong gives as the time of its Ping: the start of the clock, a time
\* less than a tick before the first call that is due, a time between the calls,
\* and a time no clock of the model reaches
PongTimes == {U64(0), U64(380), U64(500), <<0, 0, 1>>}

\* the Pongs a peer sends: of every tick, of every time
RttPongs == {Pong(tick, time, U64(3)) : tick \in 0..255, time \in PongTimes}

\* Timer::receive with one Pong, the first one of the Timer
RttReceive(m) ==
    /\ probe.average_rtt.used = 0
    /\ probe' = Timer_receive(probe, <<m>>, clock).timer
    /\ answer' = [messages |-> <<m>>,
                  outgoing |-> Timer_receive(probe, <<m>>, clock).outgoing]
    /\ UNCHANGED <<serverVars, netVars, clock, callerVars, codecVars, averageVars,
                   traceVars>>

RttNext ==
    \/ \E elapsed \in PingWaits : Work(elapsed)
    \/ \E m \in RttPongs : RttReceive(m)

SpecRtt == ReceiveInit /\ [][RttNext]_vars

(***************************************************************************)
(* Properties.                                                             *)
(***************************************************************************)
\* the Remote of connection c in the active set
Active(c) == remotes[IndexOf(remotes, c)].remote

\* the Remote of connection c after a step: still active, or handed over by closed()
After(c) ==
    IF \E i \in 1..Len(remotes') : Conn(remotes'[i]) = c
    THEN remotes'[IndexOf(remotes', c)].remote
    ELSE closed'[IndexOf(closed', c)].remote

\* the steps in which a phase runs: the first call of the tick
AcceptedRuns == ~accepted_done /\ AcceptedWith

ConnectedRuns == ~connected_done /\ Connected

ClosedRuns == ~closed_done /\ Closed

\* the bytes the write() of the closed phase hands to the transport for c
Offered(c) == WriteQueued(Active(c), clock).outgoing

\* the write() of this closed phase had bytes for c and the transport did not take them
WriteFailed(c) == Offered(c) # <<>> /\ After(c).outgoing # <<>>

\* the transport read of this connected phase fails for c
ReadFails(c) == ~Connection_read(conns[c], Active(c).incoming, "server").ok

IsPrefix(s, t) == Len(s) <= Len(t) /\ SubSeq(t, 1, Len(s)) = s

\* the last iterator yielded something, and every Remote it yielded is in this state
YieldedAll(state) == yielded # {} /\ \A c \in yielded : Active(c).state = state

\* C1: closed() returns exactly the Closed Remotes: every Remote it ever handed
\* over was in state Closed, and no Remote in state Closed is in the active set.
C1_ClosedReturnsExactlyClosed ==
    /\ \A c \in DOMAIN returns : \A i \in 1..Len(returns[c]) : returns[c][i] = "Closed"
    /\ \A i \in 1..Len(remotes) : ~Remote_closed(remotes[i].remote)

\* C2: a Remote that is active and Closing when a closed phase runs is not in the
\* active set when that closed() call returns.
C2_ClosingRemovedByClosedPhase ==
    [][\A c \in DOMAIN conns :
           (c \in ActiveConns /\ Active(c).state = "Closing" /\ ClosedRuns)
               => c \notin ActiveConns']_vars

\* C3: close() on a Remote in state Closing or Closed fails with NotConnected, and
\* the call changes neither the Remote (state, buffers) nor the transport.
C3_CloseFailsWhenClosing ==
    /\ [](\A c \in Held :
              HeldRemote(c).state \in {"Closing", "Closed"}
                  => Remote_close(HeldRemote(c))
                         = [remote |-> HeldRemote(c), res |-> "NotConnected"])
    /\ [][\A c \in DOMAIN conns :
              (RemoteClose(c) /\ HeldRemote(c).state \in {"Closing", "Closed"})
                  => UNCHANGED <<remotes, closed, conns>>]_vars

C3_Witness == \E c \in Held : HeldRemote(c).state = "Closed"

\* C4: close() on a Remote in state Accepted or Connected succeeds and sets the
\* state to Closing, and the one write() of the next closed phase leaves a Closing
\* Remote in state Closed with its transport shut down, whether or not the
\* transport took the bytes.
C4_CloseThenWriteCloses ==
    /\ [](\A c \in Held :
              HeldRemote(c).state \in {"Accepted", "Connected"}
                  => Remote_close(HeldRemote(c))
                         = [remote |-> [HeldRemote(c) EXCEPT !.state = "Closing"],
                            res |-> "Ok"])
    /\ [][\A c \in DOMAIN conns :
              (c \in ActiveConns /\ Active(c).state = "Closing" /\ ClosedRuns)
                  => (After(c).state = "Closed" /\ conns'[c].server = "shut")]_vars

\* a Remote the caller closed while its Client was there, handed over Closed after a
\* write() whose bytes the transport did not take
C4_Witness ==
    \E i \in 1..Len(closed) :
        /\ closed[i].remote.state = "Closed"
        /\ closed[i].remote.outgoing # <<>>
        /\ conns[Conn(closed[i])].client = "open"
        /\ conns[Conn(closed[i])].server = "shut"

\* C5: a call of accepted_with, connected or closed whose flag is set accepts
\* nothing, reads nothing, writes and shuts down nothing and changes no Remote;
\* sleep() clears the three flags, and a call whose flag is clear runs its phase.
C5_LaterCallsDoNothing ==
    [][/\ (accepted_done /\ AcceptedWith) => UNCHANGED <<remotes, pending, conns>>
       /\ (connected_done /\ Connected) => UNCHANGED <<remotes, pending, conns>>
       /\ (closed_done /\ Closed) => UNCHANGED <<remotes, pending, conns>>
       /\ Sleep => (~accepted_done' /\ ~connected_done' /\ ~closed_done')
       /\ (AcceptedRuns /\ listener) => pending' = <<>>
       /\ (ConnectedRuns /\ listener)
              => \A i \in 1..Len(remotes') : remotes'[i].remote.state # "Accepted"]_vars

\* the three phases of the tick have run and a connection has arrived since: a later
\* call of the tick must leave it in the accept queue
C5_Witness ==
    /\ accepted_done
    /\ connected_done
    /\ closed_done
    /\ listener
    /\ pending # <<>>

\* C6 as stated: a call of accepted_with, connected or closed whose flag is set
\* returns the set the call before it returned.
C6_SecondCallSameSet ==
    [][/\ (accepted_done /\ AcceptedWith /\ YieldedAll("Accepted")) => yielded' = yielded
       /\ (connected_done /\ Connected /\ YieldedAll("Connected")) => yielded' = yielded
       /\ (closed_done /\ Closed) => ClosedConns' = ClosedConns]_vars

\* C6 amended: a call of accepted_with or connected whose flag is set changes no
\* Remote and returns the Remotes that are Accepted or Connected then, which is the
\* set the call before it returned; a call of closed whose flag is set returns
\* nothing, the Remotes having been handed over by the first call.
C6_SecondCallSameSetButClosed ==
    [][/\ (accepted_done /\ AcceptedWith)
              => /\ remotes' = remotes
                 /\ yielded' = ConnsIn(remotes, {"Accepted"})
                 /\ YieldedAll("Accepted") => yielded' = yielded
       /\ (connected_done /\ Connected)
              => /\ remotes' = remotes
                 /\ yielded' = ConnsIn(remotes, {"Connected"})
                 /\ YieldedAll("Connected") => yielded' = yielded
       /\ (closed_done /\ Closed) => (closed' = <<>> /\ remotes' = remotes)]_vars

\* closed() has handed a Remote over and a later call of the tick has returned nothing
C6_Witness ==
    /\ closed_done
    /\ closed = <<>>
    /\ \E c \in DOMAIN returns : returns[c] # <<>>
    /\ remotes = <<>>

\* the application messages and the internal messages of a sequence of frames
AppMessages(fs) ==
    LET sel == SelectSeq(fs, LAMBDA f : f.prefix = 1)
    IN  [i \in 1..Len(sel) |-> sel[i].message]

InternalMessages(fs) ==
    LET sel == SelectSeq(fs, LAMBDA f : f.prefix = 0)
    IN  [i \in 1..Len(sel) |-> sel[i].message]

\* C7: when next() has returned none on a buffer that held the encodings of a
\* sequence of frames, the messages it returned are the application messages of
\* the frames in order and the internal queue holds their internal messages in order.
C7_DecodeRoundTrip ==
    drained => (received = AppMessages(frames) /\ internal_queue = InternalMessages(frames))

\* a drained stream with both kinds of frame, an internal one after an application one
C7_Witness ==
    /\ drained
    /\ \E i, j \in 1..Len(frames) : i < j /\ frames[i].prefix = 1 /\ frames[j].prefix = 0
    /\ received # <<>>
    /\ internal_queue # <<>>

\* C8 as stated: after a write() whose bytes the transport did not take, the buffer
\* holds the same bytes and the Remote, whatever its lifecycle state, can offer
\* them again: it is not Closed and its transport is open.
C8_FailedWriteRetried ==
    [][\A c \in DOMAIN conns :
           (c \in ActiveConns /\ ClosedRuns /\ WriteFailed(c))
               => /\ After(c).outgoing = Offered(c)
                  /\ After(c).state # "Closed"
                  /\ conns'[c].server = "open"]_vars

\* C8 amended: the bytes a Remote has queued leave its buffer only in a write() whose
\* transport write succeeds, which hands all of them to the transport in order;
\* every other step keeps them at the head of the buffer.  After a write() whose
\* transport write fails, a Remote in state Accepted or Connected keeps its state
\* and its transport, so that its next write() offers the bytes again; a Remote in
\* state Closing is Closed and its transport shut down by that same write(), with
\* the bytes still in its buffer.
C8_BytesLeaveOnlyBySuccessfulWrite ==
    [][\A c \in DOMAIN conns :
           /\ (c \in ActiveConns /\ ClosedRuns)
                  => /\ IsPrefix(Active(c).outgoing, Offered(c))
                     /\ \/ /\ After(c).outgoing = <<>>
                           /\ Offered(c) # <<>>
                                  => /\ conns[c].server = "open"
                                     /\ conns[c].client # "shut"
                                            => conns'[c].to_client
                                                   = conns[c].to_client \o Offered(c)
                        \/ /\ WriteFailed(c)
                           /\ After(c).outgoing = Offered(c)
                           /\ conns'[c].to_client = conns[c].to_client
                           /\ Active(c).state = "Closing"
                                  => (After(c).state = "Closed"
                                          /\ conns'[c].server = "shut")
                           /\ Active(c).state # "Closing"
                                  => (After(c).state = Active(c).state
                                          /\ conns'[c].server = conns[c].server)
           /\ (c \in ActiveConns /\ c \in ActiveConns' /\ ~ClosedRuns)
                  => IsPrefix(Active(c).outgoing, After(c).outgoing)]_vars

\* a Remote handed over Closed with the bytes of a send() that no write delivered
C8_Witness ==
    \E i \in 1..Len(closed) :
        /\ closed[i].remote.state = "Closed"
        /\ closed[i].remote.outgoing # <<>>
        /\ conns[Conn(closed[i])].to_client = <<>>

C10_DisconnectedRemoteClosedOnce ==
    [][\A c \in DOMAIN conns :
           (c \in ActiveConns /\ conns[c].client = "shut" /\ ClosedRuns
                /\ c \notin ActiveConns')
               => (After(c).state = "Closed" /\ returns'[c] = <<"Closed">>)]_vars

\* the Remotes an accept phase adds for the pending connections the factory takes
RECURSIVE NewRemotes(_, _)
NewRemotes(queue, factory) ==
    IF queue = <<>> THEN <<>>
    ELSE (IF Head(queue) \in factory
          THEN <<[remote |-> [connection |-> Head(queue), incoming |-> <<>>,
                              outgoing |-> <<>>, internal_messages |-> <<>>,
                              timer |-> Timer_clone(timer, clock),
                              state |-> "Accepted"],
                  data |-> [peer |-> Head(queue)]]>>
          ELSE <<>>) \o NewRemotes(Tail(queue), factory)

C13_ShutdownClosesAll ==
    [][Shutdown =>
           IF listener
           THEN /\ Server_shutdown.res = "Ok"
                /\ \A c \in ActiveConns :
                       Active(c).state # "Closed" => conns'[c].server = "shut"
                /\ remotes' = <<>>
                /\ closed_indexes' = <<>>
                /\ ~listener'
           ELSE /\ Server_shutdown.res = "NotConnected"
                /\ UNCHANGED <<serverVars, netVars>>]_vars

\* a shutdown() has dropped a Remote the Server had written to and never handed over
C13_Witness ==
    \E c \in DOMAIN conns :
        /\ ~listener
        /\ remotes = <<>>
        /\ conns[c].server = "shut"
        /\ conns[c].client = "open"
        /\ conns[c].to_client # <<>>
        /\ returns[c] = <<>>

\* C14: bind() on a Server that holds a listener and connect() on a Client that
\* holds a connection fail with AlreadyExists and change nothing, the transport
\* held and the Timer included; on a Server without a listener (after a
\* shutdown()) and on a Client without a connection (after a disconnect()) the
\* call succeeds again when the transport does, and resets the Timer.
C14_AlreadyExistsChangesNothing ==
    [][/\ \A bound \in BOOLEAN :
              BindWith(bound)
                  => IF listener
                     THEN /\ Server_bind(bound, clock).res = "AlreadyExists"
                          /\ UNCHANGED <<serverVars, netVars>>
                     ELSE bound => /\ Server_bind(bound, clock).res = "Ok"
                                   /\ listener'
                                   /\ timer' = Timer_reset(timer, clock)
       /\ \A k \in DOMAIN conns :
              (NextConnection(k) /\ ClientConnectTo(1, k))
                  => IF clients[1].connection.some
                     THEN /\ Client_connect(clients[1], k, listener, clock).res
                                 = "AlreadyExists"
                          /\ UNCHANGED <<serverVars, netVars>>
                     ELSE listener
                              => /\ Client_connect(clients[1], k, listener, clock).res
                                        = "Ok"
                                 /\ clients'[1].connection = Some(k)
                                 /\ clients'[1].timer = Timer_reset(clients[1].timer, clock)
                                 /\ conns'[k].client = "open"]_vars

\* the Client is connected for the second time, to a Server bound again after a
\* shutdown() that dropped the first connection, at a time a reset would show
C14_Witness ==
    /\ listener
    /\ clients[1].connection = Some(2)
    /\ conns[1].server = "shut"
    /\ conns[1].client = "shut"
    /\ returns[1] = <<>>
    /\ conns[2].server = "open"
    /\ timer # Timer_reset(timer, clock)
    /\ clients[1].timer # Timer_reset(clients[1].timer, clock)

\* the mean of the last n of the values
MeanOfLast(values, n) ==
    RatDivInt(RatSum(SubSeq(values, Len(values) - n + 1, Len(values)), n), n)

\* C15: with ratio 1.0, a MovingAverage of capacity N reads 0 before its first
\* update, the mean of all values after fewer than N updates, and the mean of
\* the most recent N values after N or more.
C15_MeanOfMostRecent ==
    MovingAverage_get(average) =
        IF samples = <<>> THEN RatInt(0)
        ELSE IF Len(samples) < average.size THEN MeanOfLast(samples, Len(samples))
        ELSE MeanOfLast(samples, average.size)

\* more updates than the capacity, and the values that fell out change the mean
C15_Witness ==
    /\ average.size >= 2
    /\ Len(samples) > average.size
    /\ MovingAverage_get(average) # MeanOfLast(samples, Len(samples))
    /\ MovingAverage_get(average) # RatInt(0)

\* C16: with D = 1000 ms / tick rate, backlog a and w ms passed since the last
\* sleep(): if a + w <= D, sleep() blocks D - (a + w) and the backlog becomes 0;
\* otherwise it does not block and the backlog becomes a + w - D.  The backlog
\* is never negative and a sleep() never blocks longer than D.
C16_SleepMakesUpForWork ==
    [][ProbeSleep =>
           LET D == 1000 \div probe.ticks_per_second
               a == probe.accumulated_wait
               w == clock - probe.last_wait
           IN  /\ IF a + w <= D
                  THEN /\ clock' - clock = D - (a + w)
                       /\ probe'.accumulated_wait = 0
                  ELSE /\ clock' - clock = 0
                       /\ probe'.accumulated_wait = a + w - D
               /\ probe'.accumulated_wait >= 0
               /\ clock' - clock <= D
               /\ a >= 0 /\ w >= 0]_vars

\* at 10 ticks per second a sleep() after 140 ms of work left a backlog of 40 ms
C16_Witness ==
    /\ probe.ticks_per_second = TicksPerSecond
    /\ probe.accumulated_wait = 140 - 1000 \div TicksPerSecond
    /\ probe.accumulated_wait > 0
    /\ probe.last_wait = clock
    /\ clock = 140

\* the Remote of connection c before a step: active, or held by the caller
Before(c) ==
    IF c \in ActiveConns THEN Active(c) ELSE closed[IndexOf(closed, c)].remote

\* how far a Remote is in its lifecycle
Rank(state) ==
    CASE state = "Accepted" -> 0
      [] state = "Connected" -> 1
      [] state = "Closing" -> 2
      [] state = "Closed" -> 3

\* C17: a Remote's state only moves forward through Accepted, Connected,
\* Closing, Closed; a Closed Remote stays Closed; and a Remote goes from Accepted
\* to Connected only by the read() of a connected phase.
C17_LifecycleMovesForward ==
    [][\A c \in DOMAIN conns :
           (c \in ActiveConns \cup ClosedConns /\ c \in ActiveConns' \cup ClosedConns')
               => /\ Rank(After(c).state) >= Rank(Before(c).state)
                  /\ Before(c).state = "Closed" => After(c).state = "Closed"
                  /\ (Before(c).state = "Accepted" /\ After(c).state = "Connected")
                         => /\ ConnectedRuns
                            /\ listener
                            /\ After(c) = Remote_read(Before(c), conns[c]).remote]_vars

\* a Remote has gone all the way: closed() handed it over in state Closed after
\* it had received and sent
C17_Witness ==
    \E c \in ClosedConns :
        /\ closed[IndexOf(closed, c)].remote.state = "Closed"
        /\ closed[IndexOf(closed, c)].remote.incoming # <<>>
        /\ conns[c].to_client # <<>>

\* the frames still in the buffer: those no call has decoded yet
Remaining == SubSeq(frames, Len(received) + Len(internal_queue) + 1, Len(frames))

\* the internal messages of the frames that come before the first application frame
RECURSIVE LeadingInternal(_)
LeadingInternal(fs) ==
    IF fs = <<>> \/ Head(fs).prefix = 1 THEN <<>>
    ELSE <<Head(fs).message>> \o LeadingInternal(Tail(fs))

\* C18 as stated: every call of next(), one that returns an application message
\* included, leaves the internal messages of every frame that was in the buffer
\* on the internal queue, in order: none of them is left in the buffer.
C18_EveryCallDrainsInternal ==
    [][CodecStep => internal_queue' = InternalMessages(frames)]_vars

\* C18: a call of next() queues, in order, the internal messages of the frames
\* that come before the application message it returns, and leaves the frames
\* after that message in the buffer; a call that returns none queues the
\* internal messages of every frame left, so that all of them are on the queue.
C18_CallDrainsInternalUpToMessage ==
    [][CodecStep =>
           /\ internal_queue' = internal_queue \o LeadingInternal(Remaining)
           /\ buffer' = EncodeFrames(SubSeq(frames,
                                            Len(received') + Len(internal_queue') + 1,
                                            Len(frames)))
           /\ drained' => internal_queue' = InternalMessages(frames)]_vars

\* a call has returned an application message and left an internal frame behind it
C18_Witness ==
    /\ received # <<>>
    /\ ~drained
    /\ buffer # <<>>
    /\ buffer[1] = 0
    /\ internal_queue # InternalMessages(frames)

\* the messages of one kind among the messages, in order
OfType(messages, type) == SelectSeq(messages, LAMBDA m : m.type = type)

\* C19: receive() answers every incoming Ping(tick, t) with exactly one Pong that
\* carries the same tick and t, in the order of the incoming Pings and after the
\* call's own Ping if it sends one; an incoming Pong is not answered.
C19_EveryPingAnsweredInOrder ==
    [][ProbeReceive(answer'.messages)
           => /\ Len(OfType(answer'.outgoing, "Pong")) = Len(OfType(answer'.messages, "Ping"))
              /\ \A i \in 1..Len(OfType(answer'.messages, "Ping")) :
                     /\ OfType(answer'.outgoing, "Pong")[i].tick
                            = OfType(answer'.messages, "Ping")[i].tick
                     /\ OfType(answer'.outgoing, "Pong")[i].client_time
                            = OfType(answer'.messages, "Ping")[i].time
              /\ answer'.outgoing = OfType(answer'.outgoing, "Ping")
                                        \o OfType(answer'.outgoing, "Pong")]_vars

\* a receive() handed a Pong and two different Pings has sent its own Ping and
\* then answered the two Pings in order
C19_Witness ==
    /\ answer.messages = <<Ping(2, U64(7)), Pong(0, U64(0), U64(3)), Ping(1, U64(5))>>
           \/ answer.messages = <<Ping(2, U64(7)), Ping(1, U64(5))>>
    /\ Len(answer.outgoing) = 3
    /\ answer.outgoing[1].type = "Ping"
    /\ answer.outgoing[2] = Pong(2, U64(7), U64(clock))
    /\ answer.outgoing[3] = Pong(1, U64(5), U64(clock))

\* C20: a receive() sends at most one Ping, and one only when more than
\* 8 * (1000 div tick rate) ms have passed since the Timer's last Ping (or since
\* it was made); the Ping carries the tick the Timer had before the call advanced it.
C20_OnePingWhenDue ==
    [][ProbeReceive(answer'.messages)
           => /\ Len(OfType(answer'.outgoing, "Ping")) <= 1
              /\ OfType(answer'.outgoing, "Ping") # <<>>
                     => /\ clock - probe.last_ping > 8 * (1000 \div probe.ticks_per_second)
                        /\ answer'.outgoing[1].tick = probe.tick
                        /\ probe'.tick = (probe.tick + 1) % 256]_vars

\* a Timer at 10 ticks per second has sent a Ping that carries tick 255 and has
\* wrapped around to tick 0
C20_Witness ==
    /\ answer.outgoing # <<>>
    /\ answer.outgoing[1].type = "Ping"
    /\ answer.outgoing[1].tick = 255
    /\ probe.tick = 0
    /\ probe.ticks_per_second = TicksPerSecond
    /\ probe.last_ping = clock

\* what iterating the receive() of a Remote to its end returns and leaves behind
Iterated(r) == DrainIterator(r.incoming, r.internal_messages, <<>>)

\* the application messages sent that no iterator has returned yet
Undelivered == SubSeq(sent, Len(delivered) + 1, Len(sent))

\* C11: over a transport that delivers in order, the application messages the
\* iterators of Remote::receive return are the ones the Client's send() wrote,
\* each once and in order, whatever Ping and Pong frames of either side travel
\* with them; and a connected phase that finds bytes of the Client on the
\* transport yields the Client's Remote, with a receive() that returns exactly
\* the messages sent and not returned before and leaves nothing in the buffer.
C11_SentIsDelivered ==
    /\ [](IsPrefix(delivered, sent))
    /\ [][\A c \in DOMAIN conns :
              (/\ ConnectedRuns
               /\ listener
               /\ c \in ActiveConns
               /\ Active(c).state \in {"Accepted", "Connected"}
               /\ conns[c].server = "open"
               /\ conns[c].to_server # <<>>)
                  => /\ c \in yielded'
                     /\ After(c).state = "Connected"
                     /\ Iterated(After(c)).messages = Undelivered
                     /\ Iterated(After(c)).buffer = <<>>]_vars

\* a connected phase has read a message of the Client that came behind an
\* internal frame, and the caller has not called receive() yet
C11_Witness ==
    \E c \in yielded :
        /\ connected_done
        /\ ~closed_done
        /\ Active(c).state = "Connected"
        /\ Active(c).incoming # <<>>
        /\ Active(c).incoming[1] = 0
        /\ Iterated(Active(c)).messages # <<>>
        /\ Iterated(Active(c)).messages = Undelivered

\* the round trip time the Timer has taken in last
LastRtt(t) == t.average_rtt.values[IF t.average_rtt.index = 0 THEN t.average_rtt.size
                                   ELSE t.average_rtt.index]

\* max(now - clientTime - tickDurationMs, 0); a time past the model's integers is
\* past every clock
ActualRtt(now, client_time, tick_duration) ==
    IF U64Fits(client_time) THEN Max(now - U64ToInt(client_time) - tick_duration, 0)
    ELSE 0

\* C21: a receive() with a Pong(tick, clientTime, serverTime) feeds the round trip
\* time (max(((currentTick - tick) mod 256) - 1, 0) * tickDurationMs
\*       + max(now - clientTime - tickDurationMs, 0)) / 2
\* to the estimator, with tickDurationMs = 1000 div tickRate: never a negative one,
\* whatever the ticks and the times are.
C21_RttSample ==
    [][(answer'.messages # <<>> /\ RttReceive(answer'.messages[1]))
           => LET m == answer'.messages[1]
                  tickDurationMs == 1000 \div probe.ticks_per_second
                  tickDiff == (probe.tick - m.tick) % 256
              IN  /\ probe'.average_rtt.used = 1
                  /\ LastRtt(probe')
                        = Rat(Max(tickDiff - 1, 0) * tickDurationMs
                                 + ActualRtt(clock, m.client_time, tickDurationMs), 2)
                  /\ LastRtt(probe')[1] >= 0]_vars

\* a Timer at tick 0 has taken in a Pong of tick 254, two ticks before the wrap,
\* with a time of less than a tick ago
C21_Witness ==
    /\ answer.messages # <<>>
    /\ answer.messages[1].type = "Pong"
    /\ probe.average_rtt.used = 1
    /\ probe.tick = 1
    /\ answer.messages[1].tick = 254
    /\ answer.messages[1].client_time = U64(380)
    /\ clock = 400
    /\ LastRtt(probe) = Rat(1000 \div probe.ticks_per_second, 2)

\* the frame of the stream that the two reads split: the one that the bytes read
\* first end inside of; 0 when they end between two frames
SplitFrame(read) ==
    LET inside == {i \in 1..Len(frames) :
                      /\ Len(EncodeFrames(SubSeq(frames, 1, i - 1))) < read
                      /\ read < Len(EncodeFrames(SubSeq(frames, 1, i)))}
    IN  IF inside = {} THEN 0 ELSE CHOOSE i \in inside : TRUE

\* the places in the stream (0-based, the stream being `end` bytes long and buf its
\* last bytes) of the frames whose messages the calls of next() return
RECURSIVE ReturnedFrom(_, _, _)
ReturnedFrom(buf, queue, end) ==
    LET n == MessageIterator_next(buf, queue)
    IN  IF n.message.some
        THEN {end - Len(n.buffer) - Len(MessageFrame(n.message.value))}
                 \cup ReturnedFrom(n.buffer, n.internal_queue, end)
        ELSE {}

\* C22: a next() that returns none leaves the buffer empty, also when the buffer
\* ended with a part of a frame; and when the rest of the stream is read after
\* that, the buffer holds the rest only, no call of next() returns a message
\* decoded at the place of the frame that was split, and what the calls return
\* and queue in all is not what the frames hold.
C22_NoneEmptiesBuffer ==
    /\ [][(CodecStep /\ drained') => buffer' = <<>>]_vars
    /\ [][(SplitRead /\ drained
             /\ SplitFrame(Len(EncodeFrames(frames)) - Len(arriving)) # 0)
          => LET i   == SplitFrame(Len(EncodeFrames(frames)) - Len(arriving))
                 all == DrainIterator(buffer', internal_queue', received')
             IN  /\ buffer' = arriving
                 /\ Len(EncodeFrames(SubSeq(frames, 1, i - 1)))
                        \notin ReturnedFrom(buffer', internal_queue',
                                            Len(EncodeFrames(frames)))
                 /\ \/ all.messages # AppMessages(frames)
                    \/ all.internal_queue # InternalMessages(frames)]_vars

\* a Text and a Hello were sent, the Text frame came in two parts with a next()
\* that returned none in between, and the iterators have returned the Hello only
C22_Witness ==
    /\ frames = <<[prefix |-> 1, message |-> "Text"], [prefix |-> 1, message |-> "Hello"]>>
    /\ arriving = <<>>
    /\ drained
    /\ buffer = <<>>
    /\ received = <<"Hello">>

\* the Pongs that have been sent to the Remote of connection c, as far as they can
\* still be told: those its estimator has taken in, those in its queue and those
\* in its buffer and on its transport
PongsSentTo(c) ==
    Active(c).timer.average_rtt.used
        + Len(OfType(DrainIterator(Active(c).incoming \o conns[c].to_server,
                                   Active(c).internal_messages, <<>>).internal_queue,
                     "Pong"))

\* a Remote's Timer never sleeps, so last_wait keeps the instant of its creation,
\* and a Ping moves last_ping past it
SentNoPing(r) == r.timer.last_ping = r.timer.last_wait

\* C23: between a Client and its Remote, the Pongs one side has sent never exceed
\* the Pings the other side has sent: a Remote that has sent no Ping has been
\* sent no Pong.
C23_PongsWithinPings ==
    \A c \in ActiveConns : SentNoPing(Active(c)) => PongsSentTo(c) = 0

\* C24: a Server without a listening transport, before bind() or after shutdown(),
\* has no active Remote and no index pending removal.
C24_NoListenerNoRemotes ==
    ~listener => (remotes = <<>> /\ closed_indexes = <<>>)

\* a shutdown() in the middle of a tick, after the connected phase, has dropped a
\* Remote that an earlier tick's closed phase had written for
C24_Witness ==
    \E c \in DOMAIN conns :
        /\ ~listener
        /\ accepted_done
        /\ connected_done
        /\ ~closed_done
        /\ conns[c].server = "shut"
        /\ conns[c].to_client # <<>>
        /\ returns[c] = <<>>

\* the Remote of c has been through no closed phase yet: its Timer, cloned from
\* the Server's at tick 0, has not ticked
InFirstTick(c) == Active(c).timer.tick = 0

\* C25: with accepted_with, connected, closed, sleep run in that order every tick,
\* a Remote is in state Accepted only between the accept phase and the connected
\* phase of the tick it was accepted in; the accept phase yields exactly the
\* Remotes it has just accepted; and the connected phase of that tick yields each
\* of them unless the caller has closed it or its read fails, and leaves none
\* Accepted.
C25_AcceptedYieldedInOneTick ==
    /\ [](\A c \in ActiveConns :
              Active(c).state = "Accepted"
                  => (accepted_done /\ ~connected_done /\ InFirstTick(c)))
    /\ [][(listener /\ ~accepted_done /\ AcceptedWithFactory(Range(pending)))
              => /\ yielded' = Range(pending)
                 /\ yielded' \cap ActiveConns = {}
                 /\ \A c \in yielded' : After(c).state = "Accepted"]_vars
    /\ [][(listener /\ ConnectedRuns)
              => \A c \in ActiveConns :
                     /\ After(c).state # "Accepted"
                     /\ Active(c).state = "Accepted"
                            => (c \in yielded' <=> ~ReadFails(c))
                     /\ (InFirstTick(c) /\ Active(c).state # "Accepted")
                            => c \notin yielded']_vars

\* a connected phase has yielded a Remote of an earlier tick and one accepted in
\* this tick, and not a third one accepted in this tick, whose Client is gone
C25_Witness ==
    /\ connected_done
    /\ ~closed_done
    /\ \E c, d, e \in ActiveConns :
           /\ ~InFirstTick(e) /\ e \in yielded
           /\ InFirstTick(d) /\ d \in yielded /\ Active(d).state = "Connected"
           /\ InFirstTick(c) /\ c \notin yielded /\ Active(c).state = "Closing"
           /\ conns[c].client = "shut"

\* C26: a send() on a Closing Remote queues its message like any other, and the
\* write() of a closed phase on a Closing Remote hands everything queued to the
\* transport before it shuts it down: when the transport takes the bytes they
\* reach the Client's stream and the buffer is cleared, when it does not they
\* stay in the buffer; in both cases the transport is shut down and the Remote is
\* Closed after the call.
C26_ClosingWritesThenShutsDown ==
    /\ [][\A c \in yielded :
              (Active(c).state = "Closing" /\ RemoteSend(c, "Hello"))
                  => /\ After(c).state = "Closing"
                     /\ After(c).outgoing = Active(c).outgoing \o MessageFrame("Hello")]_vars
    /\ [][\A accepts \in SUBSET Writers : \A c \in ActiveConns :
              (~closed_done /\ ClosedWith(accepts) /\ Active(c).state = "Closing")
                  => /\ IsPrefix(Active(c).outgoing, Offered(c))
                     /\ After(c).state = "Closed"
                     /\ conns'[c].server = "shut"
                     /\ IF c \in accepts
                        THEN /\ After(c).outgoing = <<>>
                             /\ conns'[c].to_client =
                                    IF conns[c].client = "shut" THEN conns[c].to_client
                                    ELSE conns[c].to_client \o Offered(c)
                        ELSE /\ After(c).outgoing = Offered(c)
                             /\ conns'[c].to_client = conns[c].to_client]_vars

\* the one write() of a Remote's life has handed a Hello to the Client's stream and
\* shut the transport down
C26_Witness ==
    \E i \in 1..Len(closed) :
        /\ closed[i].remote.state = "Closed"
        /\ closed[i].remote.timer.tick = 1
        /\ closed[i].remote.outgoing = <<>>
        /\ conns[Conn(closed[i])].to_client = MessageFrame("Hello")
        /\ conns[Conn(closed[i])].server = "shut"
        /\ conns[Conn(closed[i])].client = "open"

====
